---------------------------- MODULE Spec2Model ----------------------------
(***************************************************************************)
(* Model of smithy_python/interfaces/http.py: the HTTP interface layer of  *)
(* smithy-python.  The file declares the value shapes URL, Request,        *)
(* Response and Endpoint, the HeadersList type, the keyword-only dataclass *)
(* HttpRequestConfiguration, and three capability contracts whose method   *)
(* bodies are executable: EndpointResolver.resolve_endpoint (raises        *)
(* NotImplementedError), HttpClient.send and AsyncHttpClient.send (pass).  *)
(*                                                                         *)
(* Python values are encoded as records tagged with a "type" field so that *)
(* None, floats, objects and "no value was produced" stay comparable.      *)
(***************************************************************************)
EXTENDS Integers, Sequences, FiniteSets

VARIABLES
    ctor,            \* the last HttpRequestConfiguration(...) invocation and its result
    request,         \* a Request object held by the caller
    response,        \* a Response object
    placed,          \* the header lists the caller placed into request / response
    request_config,  \* the HttpRequestConfiguration object the caller passes to send
    calls            \* per task: the contract method it is calling and the outcome

vars == <<ctor, request, response, placed, request_config, calls>>

(* ------------------------------ bounds -------------------------------- *)

\* Longest positional argument list tried on the constructor.
MaxArgs == 2

\* Longest header list placed into a Request or Response.
MaxHeaders == 2

\* Number of concurrent tasks calling the contracts.
NumTasks == 2

(* --------------------------- Python values ---------------------------- *)

\* Python's None.
None == [type |-> "NoneType"]

\* A Python float.
Float(x) == [type |-> "float", value |-> x]

\* Nothing was produced: the call raised, or has not completed.
NoValue == [type |-> "NoValue"]

\* Sample read timeouts, in seconds.
TimeoutSeconds == {5, 30}

\* The values tried as read_timeout and as constructor arguments.
Values == {None} \cup {Float(x) : x \in TimeoutSeconds}

\* All sequences over S of length at most n.
SeqsUpTo(S, n) == UNION {[1..k -> S] : k \in 0..n}

(* ----------------------------- HeadersList ---------------------------- *)

\* Sample (name, value) pairs: one name, with two values.
HeaderPairs == {<<"x", "y">>, <<"x", "z">>}

\* The header lists a caller may place.
HeaderLists == SeqsUpTo(HeaderPairs, MaxHeaders)

\* A mapping-style container: one entry per name, at the place the name was
\* first inserted, holding the value inserted last.
HeadersMapping(pairs) ==
    LET first(i) == \A j \in 1..(i - 1) : pairs[j][1] # pairs[i][1]
        last(n)  == pairs[CHOOSE i \in 1..Len(pairs) :
                            /\ pairs[i][1] = n
                            /\ \A j \in (i + 1)..Len(pairs) : pairs[j][1] # n][2]
        F[i \in 0..Len(pairs)] ==
            IF i = 0 THEN <<>>
            ELSE IF first(i)
                 THEN Append(F[i - 1], <<pairs[i][1], last(pairs[i][1])>>)
                 ELSE F[i - 1]
    IN  F[Len(pairs)]

\* HeadersList = list[tuple[str, str]]: a list holding every pair, in order.
HeadersList(pairs) ==
    [i \in 1..Len(pairs) |-> <<pairs[i][1], pairs[i][2]>>]

(* ---------------------------- value shapes ---------------------------- *)

\* A URL value: scheme, hostname, port, path, query_params.
URL ==
    [scheme |-> "https", hostname |-> "amazonaws.com", port |-> None,
     path |-> "/", query_params |-> <<>>]

Methods == {"GET", "PUT"}

StatusCodes == {200, 404}

\* A Request value: url, method, headers, body.
Request(method, headers) ==
    [url |-> URL, method |-> method, headers |-> HeadersList(headers), body |-> None]

\* A Response value: status_code, headers, body.
Response(status_code, headers) ==
    [status_code |-> status_code, headers |-> HeadersList(headers), body |-> None]

\* The EndpointParams values of the generated client (opaque at this layer).
EndpointParams == {[type |-> "EndpointParams", id |-> i] : i \in {"p1", "p2"}}

(* ---------------------- HttpRequestConfiguration ---------------------- *)

\* The keyword names tried on the constructor; only read_timeout is a field.
KeywordNames == {"read_timeout", "timeout"}

\* The fields of the dataclass.
Fields == {"read_timeout"}

Kwargs == UNION {[D -> Values] : D \in SUBSET KeywordNames}

Args == SeqsUpTo(Values, MaxArgs)

TypeError == [raised |-> "TypeError", value |-> NoValue]

ConfigObject(read_timeout) ==
    [type |-> "HttpRequestConfiguration", read_timeout |-> read_timeout]

\* The constructor with the default of read_timeout changed.
HttpRequestConfiguration_default0(args, kwargs) ==
    IF Len(args) > 0 \/ ~(DOMAIN kwargs \subseteq Fields)
    THEN TypeError
    ELSE [raised |-> "none",
          value  |-> ConfigObject(IF "read_timeout" \in DOMAIN kwargs
                                  THEN kwargs["read_timeout"]
                                  ELSE Float(0))]

\* The constructor of a dataclass that is not kw_only: the first positional
\* argument binds read_timeout.
HttpRequestConfiguration_positional(args, kwargs) ==
    IF Len(args) > 1 \/ ~(DOMAIN kwargs \subseteq Fields)
       \/ (Len(args) = 1 /\ "read_timeout" \in DOMAIN kwargs)
    THEN TypeError
    ELSE [raised |-> "none",
          value  |-> ConfigObject(IF Len(args) = 1 THEN args[1]
                                  ELSE IF "read_timeout" \in DOMAIN kwargs
                                       THEN kwargs["read_timeout"]
                                       ELSE None)]

\* HttpRequestConfiguration(*args, **kwargs): the __init__ that
\* @dataclass(kw_only=True) generates, __init__(self, *, read_timeout=None).
HttpRequestConfiguration(args, kwargs) ==
    IF Len(args) > 0
    THEN TypeError
    ELSE IF ~(DOMAIN kwargs \subseteq Fields)
    THEN TypeError
    ELSE [raised |-> "none",
          value  |-> ConfigObject(IF "read_timeout" \in DOMAIN kwargs
                                  THEN kwargs["read_timeout"]
                                  ELSE None)]

(* --------------------------- method bodies ---------------------------- *)
(* A body yields what it raised, what it returned, and its arguments as it *)
(* leaves them.                                                            *)

\* A resolver body that returns without raising.
resolve_endpoint_pass(params) ==
    [raised |-> "none", value |-> None, params |-> params]

\* A resolver body that awaits something that never completes.
resolve_endpoint_pending(params) ==
    [raised |-> "pending", value |-> NoValue, params |-> params]

\* EndpointResolver.resolve_endpoint: raise NotImplementedError()
resolve_endpoint(params) ==
    [raised |-> "NotImplementedError", value |-> NoValue, params |-> params]

\* A send body written as the resolver's is.
HttpClient_send_raises(req, config) ==
    [raised |-> "NotImplementedError", value |-> NoValue,
     request |-> req, request_config |-> config]

\* HttpClient.send: pass
HttpClient_send(req, config) ==
    [raised |-> "none", value |-> None, request |-> req, request_config |-> config]

\* A send body that fills in a default timeout on the caller's configuration.
AsyncHttpClient_send_defaults(req, config) ==
    [raised |-> "none", value |-> None, request |-> req,
     request_config |-> [config EXCEPT !.read_timeout =
                            IF @ = None THEN Float(30) ELSE @]]

\* AsyncHttpClient.send: pass
AsyncHttpClient_send(req, config) ==
    [raised |-> "none", value |-> None, request |-> req, request_config |-> config]

(* ------------------------------- state -------------------------------- *)

Tasks == 1..NumTasks

Idle ==
    [kind |-> "none", pc |-> "idle", params |-> NoValue,
     raised |-> "none", value |-> NoValue]

Init ==
    /\ ctor = [args |-> <<>>, kwargs |-> <<>>,
               result |-> HttpRequestConfiguration(<<>>, <<>>)]
    /\ request = Request("GET", <<>>)
    /\ response = Response(200, <<>>)
    /\ placed = [request |-> <<>>, response |-> <<>>]
    /\ request_config = HttpRequestConfiguration(<<>>, <<>>).value
    /\ calls = [t \in Tasks |-> Idle]

(* ------------------------------ actions ------------------------------- *)

\* HttpRequestConfiguration(*args, **kwargs) is evaluated.
Construct(args, kwargs) ==
    /\ ctor' = [args |-> args, kwargs |-> kwargs,
                result |-> HttpRequestConfiguration(args, kwargs)]
    /\ UNCHANGED <<request, response, placed, request_config, calls>>

\* The caller builds the configuration it passes to send.
Configure(v) ==
    /\ HttpRequestConfiguration(<<>>, [k \in {"read_timeout"} |-> v]).raised = "none"
    /\ request_config' =
           HttpRequestConfiguration(<<>>, [k \in {"read_timeout"} |-> v]).value
    /\ UNCHANGED <<ctor, request, response, placed, calls>>

\* request.headers = h
SetRequestHeaders(h) ==
    /\ request' = [request EXCEPT !.headers = HeadersList(h)]
    /\ placed' = [placed EXCEPT !.request = h]
    /\ UNCHANGED <<ctor, response, request_config, calls>>

\* request.method = m
SetRequestMethod(m) ==
    /\ request' = [request EXCEPT !.method = m]
    /\ UNCHANGED <<ctor, response, placed, request_config, calls>>

\* response.headers = h
SetResponseHeaders(h) ==
    /\ response' = [response EXCEPT !.headers = HeadersList(h)]
    /\ placed' = [placed EXCEPT !.response = h]
    /\ UNCHANGED <<ctor, request, request_config, calls>>

\* response.status_code = s
SetResponseStatus(s) ==
    /\ response' = [response EXCEPT !.status_code = s]
    /\ UNCHANGED <<ctor, request, placed, request_config, calls>>

\* Task t evaluates `await resolver.resolve_endpoint(params)`: the coroutine
\* is created and the task waits for it.
CallResolveEndpoint(t, params) ==
    /\ calls[t].pc = "idle"
    /\ calls' = [calls EXCEPT ![t] =
                    [kind |-> "resolve_endpoint", pc |-> "awaiting",
                     params |-> params, raised |-> "none", value |-> NoValue]]
    /\ UNCHANGED <<ctor, request, response, placed, request_config>>

\* The event loop runs the resolve_endpoint coroutine of task t.
RunResolveEndpoint(t) ==
    /\ calls[t].pc = "awaiting"
    /\ calls[t].kind = "resolve_endpoint"
    /\ LET r == resolve_endpoint(calls[t].params)
       IN  calls' = [calls EXCEPT ![t] =
                        IF r.raised = "pending"
                        THEN [@ EXCEPT !.params = r.params]
                        ELSE [@ EXCEPT !.pc = "done", !.params = r.params,
                                       !.raised = r.raised, !.value = r.value]]
    /\ UNCHANGED <<ctor, request, response, placed, request_config>>

\* Task t evaluates `client.send(request, request_config)` on an HttpClient:
\* the body runs in the caller and the call returns.
CallSend(t) ==
    /\ calls[t].pc = "idle"
    /\ LET r == HttpClient_send(request, request_config)
       IN  /\ calls' = [calls EXCEPT ![t] =
                           [kind |-> "HttpClient.send", pc |-> "done",
                            params |-> NoValue, raised |-> r.raised,
                            value |-> r.value]]
           /\ request' = r.request
           /\ request_config' = r.request_config
    /\ UNCHANGED <<ctor, response, placed>>

\* Task t evaluates `await client.send(request, request_config)` on an
\* AsyncHttpClient: the coroutine is created and the task waits for it.
CallAsyncSend(t) ==
    /\ calls[t].pc = "idle"
    /\ calls' = [calls EXCEPT ![t] =
                    [kind |-> "AsyncHttpClient.send", pc |-> "awaiting",
                     params |-> NoValue, raised |-> "none", value |-> NoValue]]
    /\ UNCHANGED <<ctor, request, response, placed, request_config>>

\* The event loop runs the AsyncHttpClient.send coroutine of task t.
RunAsyncSend(t) ==
    /\ calls[t].pc = "awaiting"
    /\ calls[t].kind = "AsyncHttpClient.send"
    /\ LET r == AsyncHttpClient_send(request, request_config)
       IN  /\ calls' = [calls EXCEPT ![t] =
                           IF r.raised = "pending"
                           THEN @
                           ELSE [@ EXCEPT !.pc = "done", !.raised = r.raised,
                                          !.value = r.value]]
           /\ request' = r.request
           /\ request_config' = r.request_config
    /\ UNCHANGED <<ctor, response, placed>>

\* Task t takes the outcome of its call and is ready for the next one.
Return(t) ==
    /\ calls[t].pc = "done"
    /\ calls' = [calls EXCEPT ![t] = Idle]
    /\ UNCHANGED <<ctor, request, response, placed, request_config>>

(* --------------------------- specifications --------------------------- *)

\* The contract methods called by concurrent tasks on the caller's objects.
Next ==
    \/ \E v \in Values : Configure(v)
    \/ \E h \in HeaderLists : SetRequestHeaders(h)
    \/ \E m \in Methods : SetRequestMethod(m)
    \/ \E t \in Tasks, p \in EndpointParams : CallResolveEndpoint(t, p)
    \/ \E t \in Tasks : RunResolveEndpoint(t)
    \/ \E t \in Tasks : CallSend(t)
    \/ \E t \in Tasks : CallAsyncSend(t)
    \/ \E t \in Tasks : RunAsyncSend(t)
    \/ \E t \in Tasks : Return(t)

Spec == Init /\ [][Next]_vars

\* The event loop runs every coroutine that is being awaited.
FairSpec ==
    /\ Spec
    /\ \A t \in Tasks : WF_vars(RunResolveEndpoint(t))
    /\ \A t \in Tasks : WF_vars(RunAsyncSend(t))

\* The constructor applied to every bounded argument list.
NextConfig == \E args \in Args, kwargs \in Kwargs : Construct(args, kwargs)

SpecConfig == Init /\ [][NextConfig]_vars

\* Header lists and the other fields stored into a Request and a Response.
NextMessages ==
    \/ \E h \in HeaderLists : SetRequestHeaders(h)
    \/ \E m \in Methods : SetRequestMethod(m)
    \/ \E h \in HeaderLists : SetResponseHeaders(h)
    \/ \E s \in StatusCodes : SetResponseStatus(s)

SpecMessages == Init /\ [][NextMessages]_vars

(* ------------------------------- claims ------------------------------- *)

Done(t, kind) == calls[t].pc = "done" /\ calls[t].kind = kind

Awaiting(t, kind) == calls[t].pc = "awaiting" /\ calls[t].kind = kind

\* C1: a completed call of EndpointResolver.resolve_endpoint on the contract
\* itself has raised NotImplementedError, whatever params it was given, and
\* has produced no value (so no Endpoint).
C1_ResolveEndpointRaisesNotImplemented ==
    \A t \in Tasks :
        Done(t, "resolve_endpoint") =>
            /\ calls[t].params \in EndpointParams
            /\ calls[t].raised = "NotImplementedError"
            /\ calls[t].value = NoValue

\* Two calls, one per params value, have both completed.
C1_Witness ==
    \E t, u \in Tasks :
        /\ Done(t, "resolve_endpoint") /\ Done(u, "resolve_endpoint")
        /\ calls[t].params # calls[u].params
        /\ calls[t].raised = "NotImplementedError"
        /\ calls[u].raised = "NotImplementedError"

\* C2: HttpRequestConfiguration() exposes read_timeout as None, and
\* HttpRequestConfiguration(read_timeout=v) exposes exactly v, for every v.
C2_ReadTimeoutExposedAsGiven ==
    /\ (ctor.args = <<>> /\ DOMAIN ctor.kwargs = {}) =>
           /\ ctor.result.raised = "none"
           /\ ctor.result.value.type = "HttpRequestConfiguration"
           /\ ctor.result.value.read_timeout = None
    /\ (ctor.args = <<>> /\ DOMAIN ctor.kwargs = {"read_timeout"}) =>
           /\ ctor.result.raised = "none"
           /\ ctor.result.value.type = "HttpRequestConfiguration"
           /\ ctor.result.value.read_timeout = ctor.kwargs["read_timeout"]

\* HttpRequestConfiguration(read_timeout=30.0) has been constructed.
C2_Witness ==
    /\ ctor.args = <<>>
    /\ DOMAIN ctor.kwargs = {"read_timeout"}
    /\ ctor.kwargs["read_timeout"] = Float(30)
    /\ ctor.result.raised = "none"
    /\ ctor.result.value.read_timeout = Float(30)

C6_ResolveEndpointFinishes ==
    \A t \in Tasks :
        Awaiting(t, "resolve_endpoint") ~>
            /\ Done(t, "resolve_endpoint")
            /\ (calls[t].raised # "none" \/ calls[t].value.type = "Endpoint")

\* One call of resolve_endpoint has finished while another is being awaited.
C6_Witness ==
    \E t, u \in Tasks :
        /\ Done(t, "resolve_endpoint") /\ calls[t].raised # "none"
        /\ Awaiting(u, "resolve_endpoint")

\* A task starts or finishes a call in this step.
CallStep == calls' # calls /\ \E t \in Tasks : calls'[t].pc # "idle"

\* C8: a step in which a call starts or finishes leaves the Request, the
\* HttpRequestConfiguration and the params of every call as they were; and
\* two finished calls of the same method have the same outcome, whatever
\* ran before or beside them.
C8_CallsIndependent ==
    /\ [][CallStep =>
            /\ request' = request
            /\ request_config' = request_config
            /\ \A t \in Tasks :
                   calls[t].pc = "awaiting" => calls'[t].params = calls[t].params]_vars
    /\ [](\A t, u \in Tasks :
            (calls[t].pc = "done" /\ calls[u].pc = "done"
             /\ calls[t].kind = calls[u].kind) =>
                /\ calls[t].raised = calls[u].raised
                /\ calls[t].value = calls[u].value)

\* Two asynchronous sends have finished on a request that carries headers,
\* under a configuration that leaves read_timeout unset.
C8_Witness ==
    /\ \A t \in Tasks : Done(t, "AsyncHttpClient.send")
    /\ request.headers # <<>>
    /\ request.method = "PUT"
    /\ request_config.read_timeout = None

\* C9: a completed HttpClient.send or AsyncHttpClient.send on the contract
\* itself has raised nothing and has yielded None.
C9_SendYieldsNone ==
    \A t \in Tasks :
        (Done(t, "HttpClient.send") \/ Done(t, "AsyncHttpClient.send")) =>
            /\ calls[t].raised = "none"
            /\ calls[t].value = None

\* A synchronous and an asynchronous send have both completed, with a
\* request that carries headers and a configuration with a read timeout, while
\* resolve_endpoint is known to raise.
C9_Witness ==
    \E t, u \in Tasks :
        /\ Done(t, "HttpClient.send") /\ Done(u, "AsyncHttpClient.send")
        /\ calls[t].value = None /\ calls[u].value = None
        /\ Len(request.headers) = MaxHeaders
        /\ request_config.read_timeout = Float(5)

\* C10: a positional argument is rejected with TypeError and yields no object;
\* construction succeeds exactly for HttpRequestConfiguration() and
\* HttpRequestConfiguration(read_timeout=v).
C10_KeywordOnly ==
    /\ Len(ctor.args) > 0 =>
           ctor.result.raised = "TypeError" /\ ctor.result.value = NoValue
    /\ ctor.result.raised = "none" <=>
           (ctor.args = <<>> /\ DOMAIN ctor.kwargs \subseteq {"read_timeout"})
    /\ ctor.result.raised # "none" => ctor.result.value = NoValue

\* HttpRequestConfiguration(30.0) has been rejected.
C10_Witness ==
    /\ ctor.args = <<Float(30)>>
    /\ DOMAIN ctor.kwargs = {}
    /\ ctor.result.raised = "TypeError"
    /\ ctor.result.value = NoValue

=============================================================================
